---- MODULE Spec2Model ----
(***************************************************************************)
(* Location selection and location filtering of the events map.            *)
(*                                                                         *)
(*   - the selection state machine of useEventFilters                      *)
(*     (toggleAreaSelection, toggleCoordinateSelection,                    *)
(*     clearLocationFilter) over filters.location;                          *)
(*   - the pure filter filterEventsByLocation;                            *)
(*   - the clustering pass of useEventMarkers, one event per step;         *)
(*   - the conversion of stored records to events, convertPrismaEventToEvent;*)
(*   - the clicks on the map of the page (area circles, markers).          *)
(*                                                                         *)
(* Optional values (a field that may be absent, a value that may be        *)
(* undefined) are sets of at most one element: {} is absent, {v} is v.     *)
(* Coordinates are in units of 1e-4 degree, distances and radii in metres  *)
(* (the code's kilometres times 1000).                                     *)
(***************************************************************************)
EXTENDS Integers, Sequences, FiniteSets, TLC

VARIABLES
    location,        \* filters.location of useEventFilters (optional LocationFilter)
    hist,            \* the last toggle calls, newest last, each with the location it found
    events,          \* argument `events` of filterEventsByLocation
    locationFilterArg, \* argument `locationFilter` of filterEventsByLocation
    filteredEvents,  \* its result (optional: absent until the call returns)
    pc,              \* "select": the hook is serving toggles; "filter"/"done": the filter
                     \* call; "cluster"/"returned": the clustering pass
    markerArgs,      \* arguments of useEventMarkers (absent when it is not in use)
    markers,         \* `markers` of the useMemo callback of useEventMarkers
    cursor,          \* position of events.forEach in its list
    now,             \* Date.now() of the current run of the callback
    firstRun,        \* the markers an earlier run returned for the same arguments
    prismaEvents,    \* the stored records EventsService maps convertPrismaEventToEvent over
    convertedEvents, \* the events converted so far
    resolutions      \* getEventCoordinates of each converted event (absent before it is asked)

vars == <<location, hist, events, locationFilterArg, filteredEvents, pc,
          markerArgs, markers, cursor, now, firstRun,
          prismaEvents, convertedEvents, resolutions>>

----------------------------------------------------------------------------
(* Bounds *)

MaxAreas == 3          \* how many area codes the toggles draw from
MaxEvents == 1         \* longest event list handed to the filter
MaxMarkerEvents == 3   \* longest event list handed to useEventMarkers
MaxPrismaEvents == 2   \* longest list of stored records that is converted
MaxMapEvents == 3      \* longest list of events of the page

----------------------------------------------------------------------------
(* Optional values *)

None == {}
Some(x) == {x}
Val(o) == CHOOSE x \in o : TRUE

Min(a, b) == IF a <= b THEN a ELSE b

----------------------------------------------------------------------------
(* Types: SanFranciscoArea, Coordinates, LocationFilter, Event *)

AreaCodes == <<"soma", "mission", "castro", "hayes-valley">>

SanFranciscoArea == {AreaCodes[i] : i \in 1..Min(MaxAreas, Len(AreaCodes))}

SFCenter     == [lat |-> 377749, lng |-> -1224194]
SFCenterEast == [lat |-> 377749, lng |-> -1224094]
HayesValley  == [lat |-> 377756, lng |-> -1224244]
SomaCenter   == [lat |-> 377849, lng |-> -1224094]
OneOne       == [lat |-> 10000, lng |-> 10000]
EmbarcaderoPoint == [lat |-> 377955, lng |-> -1223937]
NearSFCenter == [lat |-> 377750, lng |-> -1224195]
NorthOfSF    == [lat |-> 377755, lng |-> -1224194]
FartherNorth == [lat |-> 377761, lng |-> -1224194]
MissionCenter == [lat |-> 377599, lng |-> -1224148]
CastroCenter == [lat |-> 377609, lng |-> -1224350]

\* A LocationFilter object with no field set: what `{...undefined}` spreads to.
EmptyObject == [areas |-> None, center |-> None, radius |-> None,
                includeApproximate |-> None]

----------------------------------------------------------------------------
(* useEventFilters: the selection state machine over filters.location *)

\* `filters.location?.areas || []`
CurrentAreas(filtersLocation) ==
    IF filtersLocation # None /\ Val(filtersLocation).areas # None
    THEN Val(Val(filtersLocation).areas)
    ELSE <<>>

\* Array.prototype.includes
Includes(seq, x) == \E i \in 1..Len(seq) : seq[i] = x

\* `{...filters.location}`
Spread(filtersLocation) ==
    IF filtersLocation = None THEN EmptyObject ELSE Val(filtersLocation)

\* A faulty toggleAreaSelection: the last-area case keeps the rest of the
\* filter instead of dropping the whole location filter.
toggleAreaSelection_keepsFilter(filtersLocation, area) ==
    LET currentAreas == CurrentAreas(filtersLocation)
        newAreas == IF Includes(currentAreas, area)
                    THEN SelectSeq(currentAreas, LAMBDA a : a # area)
                    ELSE Append(currentAreas, area)
    IN  Some([Spread(filtersLocation) EXCEPT
                 !.areas = Some(newAreas),
                 !.includeApproximate = Some(TRUE)])

\* A faulty toggleAreaSelection: a newly selected area is put first.
toggleAreaSelection_prepends(filtersLocation, area) ==
    LET currentAreas == CurrentAreas(filtersLocation)
        newAreas == IF Includes(currentAreas, area)
                    THEN SelectSeq(currentAreas, LAMBDA a : a # area)
                    ELSE <<area>> \o currentAreas
    IN  IF Len(newAreas) = 0
        THEN None
        ELSE Some([Spread(filtersLocation) EXCEPT
                      !.areas = Some(newAreas),
                      !.includeApproximate = Some(TRUE)])

\* A faulty toggleAreaSelection: the new filter is built from the areas
\* alone, without spreading the current filter.
toggleAreaSelection_noSpread(filtersLocation, area) ==
    LET currentAreas == CurrentAreas(filtersLocation)
        newAreas == IF Includes(currentAreas, area)
                    THEN SelectSeq(currentAreas, LAMBDA a : a # area)
                    ELSE Append(currentAreas, area)
    IN  IF Len(newAreas) = 0
        THEN None
        ELSE Some([EmptyObject EXCEPT
                      !.areas = Some(newAreas),
                      !.includeApproximate = Some(TRUE)])

\* A faulty toggleAreaSelection: selecting replaces the selection (single
\* select) instead of adding to it.
toggleAreaSelection_single(filtersLocation, area) ==
    LET currentAreas == CurrentAreas(filtersLocation)
        newAreas == IF Includes(currentAreas, area)
                    THEN SelectSeq(currentAreas, LAMBDA a : a # area)
                    ELSE <<area>>
    IN  IF Len(newAreas) = 0
        THEN None
        ELSE Some([Spread(filtersLocation) EXCEPT
                      !.areas = Some(newAreas),
                      !.includeApproximate = Some(TRUE)])

\* toggleAreaSelection(area), as a function of the filters.location it reads:
\* the value it hands to updateFilter({ location: ... }).
toggleAreaSelection(filtersLocation, area) ==
    LET currentAreas == CurrentAreas(filtersLocation)
        isCurrentlySelected == Includes(currentAreas, area)
        newAreas == IF isCurrentlySelected
                    THEN SelectSeq(currentAreas, LAMBDA a : a # area)
                    ELSE Append(currentAreas, area)
    IN  IF Len(newAreas) = 0
        THEN None
        ELSE Some([Spread(filtersLocation) EXCEPT
                      !.areas = Some(newAreas),
                      !.includeApproximate = Some(TRUE)])

\* A faulty toggleCoordinateSelection: the current center is recognised by
\* its latitude alone.
toggleCoordinateSelection_latOnly(filtersLocation, coordinates, radius) ==
    LET isCurrentlySelected ==
            /\ filtersLocation # None
            /\ Val(filtersLocation).center # None
            /\ Val(Val(filtersLocation).center).lat = coordinates.lat
    IN  IF isCurrentlySelected
        THEN IF Len(CurrentAreas(filtersLocation)) > 0
             THEN Some([areas |-> Val(filtersLocation).areas,
                        center |-> None, radius |-> None,
                        includeApproximate |-> Some(TRUE)])
             ELSE None
        ELSE Some([Spread(filtersLocation) EXCEPT
                      !.center = Some(coordinates),
                      !.radius = Some(radius),
                      !.includeApproximate = Some(TRUE)])

\* A faulty toggleCoordinateSelection: deselecting the center drops the
\* whole location filter, selected areas included.
toggleCoordinateSelection_dropsAreas(filtersLocation, coordinates, radius) ==
    LET isCurrentlySelected ==
            /\ filtersLocation # None
            /\ Val(filtersLocation).center # None
            /\ Val(Val(filtersLocation).center).lat = coordinates.lat
            /\ Val(Val(filtersLocation).center).lng = coordinates.lng
    IN  IF isCurrentlySelected
        THEN None
        ELSE Some([Spread(filtersLocation) EXCEPT
                      !.center = Some(coordinates),
                      !.radius = Some(radius),
                      !.includeApproximate = Some(TRUE)])

\* A faulty toggleCoordinateSelection: selecting does not set
\* includeApproximate.
toggleCoordinateSelection_noApproximate(filtersLocation, coordinates, radius) ==
    LET currentLocation == filtersLocation
        isCurrentlySelected ==
            /\ currentLocation # None
            /\ Val(currentLocation).center # None
            /\ Val(Val(currentLocation).center).lat = coordinates.lat
            /\ Val(Val(currentLocation).center).lng = coordinates.lng
    IN  IF isCurrentlySelected
        THEN IF /\ Val(currentLocation).areas # None
                /\ Len(Val(Val(currentLocation).areas)) > 0
             THEN Some([areas |-> Val(currentLocation).areas,
                        center |-> None, radius |-> None,
                        includeApproximate |-> Some(TRUE)])
             ELSE None
        ELSE Some([Spread(currentLocation) EXCEPT
                      !.center = Some(coordinates),
                      !.radius = Some(radius)])

\* A faulty toggleCoordinateSelection: deselecting the center leaves an empty
\* filter behind when no area is selected.
toggleCoordinateSelection_leavesEmpty(filtersLocation, coordinates, radius) ==
    LET currentLocation == filtersLocation
        isCurrentlySelected ==
            /\ currentLocation # None
            /\ Val(currentLocation).center # None
            /\ Val(Val(currentLocation).center).lat = coordinates.lat
            /\ Val(Val(currentLocation).center).lng = coordinates.lng
    IN  IF isCurrentlySelected
        THEN Some([areas |-> Val(currentLocation).areas,
                   center |-> None, radius |-> None,
                   includeApproximate |-> Some(TRUE)])
        ELSE Some([Spread(currentLocation) EXCEPT
                      !.center = Some(coordinates),
                      !.radius = Some(radius),
                      !.includeApproximate = Some(TRUE)])

\* toggleCoordinateSelection(coordinates, radius), as a function of the
\* filters.location it reads.
toggleCoordinateSelection(filtersLocation, coordinates, radius) ==
    LET currentLocation == filtersLocation
        isCurrentlySelected ==
            /\ currentLocation # None
            /\ Val(currentLocation).center # None
            /\ Val(Val(currentLocation).center).lat = coordinates.lat
            /\ Val(Val(currentLocation).center).lng = coordinates.lng
    IN  IF isCurrentlySelected
        THEN IF /\ Val(currentLocation).areas # None
                /\ Len(Val(Val(currentLocation).areas)) > 0
             THEN Some([areas |-> Val(currentLocation).areas,
                        center |-> None, radius |-> None,
                        includeApproximate |-> Some(TRUE)])
             ELSE None
        ELSE Some([Spread(currentLocation) EXCEPT
                      !.center = Some(coordinates),
                      !.radius = Some(radius),
                      !.includeApproximate = Some(TRUE)])

\* The coordinates and radii the map hands to toggleCoordinateSelection:
\* 1 km for a single marker, 0.5 km for a cluster, and the other values a
\* caller of the hook may pass.
ToggleCenters == {SFCenter, SFCenterEast, OneOne}
ToggleRadii == {0, 500, 1000, 2000}

\* hist keeps the last two calls.
Remember(call) ==
    IF Len(hist) < 2 THEN Append(hist, call)
    ELSE Append(Tail(hist), call)

SelectionIdle ==
    /\ pc = "select"
    /\ UNCHANGED <<events, locationFilterArg, filteredEvents, pc>>
    /\ UNCHANGED <<markerArgs, markers, cursor, now, firstRun>>
    /\ UNCHANGED <<prismaEvents, convertedEvents, resolutions>>

\* A click handled by one call of toggleAreaSelection, and the re-render that
\* follows: the call reads the filters.location of the latest render, and
\* updateFilter puts its result in place of it.
ToggleAreaSelection ==
    \E area \in SanFranciscoArea :
        /\ SelectionIdle
        /\ location' = toggleAreaSelection(location, area)
        /\ hist' = Remember([op |-> "toggleArea", area |-> Some(area),
                             center |-> None, radius |-> None,
                             pre |-> location])

\* A click handled by toggleCoordinateSelection, and the re-render that follows.
ToggleCoordinateSelection ==
    \E coordinates \in ToggleCenters, radius \in ToggleRadii :
        /\ SelectionIdle
        /\ location' = toggleCoordinateSelection(location, coordinates, radius)
        /\ hist' = Remember([op |-> "toggleCenter", area |-> None,
                             center |-> Some(coordinates),
                             radius |-> Some(radius),
                             pre |-> location])

\* clearLocationFilter: updateFilter({ location: undefined })
ClearLocationFilter ==
    /\ SelectionIdle
    /\ location' = None
    /\ hist' = Remember([op |-> "clear", area |-> None, center |-> None,
                         radius |-> None, pre |-> location])

\* useEventFilters called as the page calls it: no initial location filter.
Init ==
    /\ location = None
    /\ hist = <<>>
    /\ events = <<>>
    /\ locationFilterArg = None
    /\ filteredEvents = None
    /\ pc = "select"
    /\ markerArgs = None /\ markers = <<>> /\ cursor = 0
    /\ now = 0 /\ firstRun = None
    /\ prismaEvents = <<>> /\ convertedEvents = <<>> /\ resolutions = None

Next ==
    \/ ToggleAreaSelection
    \/ ToggleCoordinateSelection
    \/ ClearLocationFilter

Spec == Init /\ [][Next]_vars

\* The SelectionState a LocationFilter stands for.
selectedAreas(loc) == CurrentAreas(loc)
selectedCenter(loc) == IF loc = None THEN None ELSE Val(loc).center
selectedRadiusKm(loc) == IF loc = None THEN None ELSE Val(loc).radius
SeqToSet(seq) == {seq[i] : i \in 1..Len(seq)}

----------------------------------------------------------------------------
(* filterEventsByLocation *)

\* calculateDistance on the coordinates of this model, in metres to the
\* nearest metre: the haversine formula with R = 6371 km, evaluated on each
\* pair of KnownCoordinates.
KnownCoordinates ==
    <<SFCenter, HayesValley, SomaCenter, NearSFCenter, NorthOfSF,
      FartherNorth, MissionCenter, CastroCenter>>

HaversineMetres ==
    << <<0,    446,  1417, 14,   67,   133,  1716, 2075>>,
       <<446,  0,    1675, 436,  440,  443,  1939, 1881>>,
       <<1417, 1675, 0,    1414, 1366, 1315, 2820, 3491>>,
       <<14,   436,  1414, 0,    56,   123,  1729, 2077>>,
       <<67,   440,  1366, 56,   0,    67,   1781, 2125>>,
       <<133,  443,  1315, 123,  67,   0,    1846, 2176>>,
       <<1716, 1939, 2820, 1729, 1781, 1846, 0,    1779>>,
       <<2075, 1881, 3491, 2077, 2125, 2176, 1779, 0>> >>

CoordinateIndex(coord) ==
    CHOOSE i \in 1..Len(KnownCoordinates) : KnownCoordinates[i] = coord

calculateDistance(coord1, coord2) ==
    HaversineMetres[CoordinateIndex(coord1)][CoordinateIndex(coord2)]

\* AREA_CENTER_COORDINATES, for the area codes of this model. "embarcadero"
\* is a SanFranciscoArea with no entry.
AREA_CENTER_COORDINATES ==
    [area \in {"soma", "mission", "castro", "hayes-valley"} |->
        CASE area = "soma" -> SomaCenter
          [] area = "mission" -> MissionCenter
          [] area = "castro" -> CastroCenter
          [] area = "hayes-valley" -> HayesValley]

\* A faulty KeepsEvent: an event needs both coordinates and an area to count
\* as located.
KeepsEvent_needsBoth(event, filter) ==
    IF event.coordinates = None \/ event.area = None THEN FALSE
    ELSE
    LET eventLocationType ==
            IF event.locationType = None THEN "approximate"
            ELSE Val(event.locationType)
        hasAreaFilter == filter.areas # None /\ Len(Val(filter.areas)) > 0
        hasRadiusFilter ==
            /\ filter.center # None
            /\ filter.radius # None /\ Val(filter.radius) # 0
        matchesAreaFilter ==
            /\ hasAreaFilter /\ event.area # None
            /\ Includes(Val(filter.areas), Val(event.area))
        matchesRadiusFilter ==
            /\ hasRadiusFilter /\ event.coordinates # None
            /\ calculateDistance(Val(filter.center), Val(event.coordinates))
                   <= Val(filter.radius)
    IN  IF eventLocationType = "approximate"
           /\ filter.includeApproximate # Some(TRUE)
        THEN FALSE
        ELSE IF ~hasAreaFilter /\ ~hasRadiusFilter THEN TRUE
        ELSE matchesAreaFilter \/ matchesRadiusFilter

\* A faulty KeepsEvent: an event without locationType counts as exact.
KeepsEvent_defaultsExact(event, filter) ==
    IF event.coordinates = None /\ event.area = None THEN FALSE
    ELSE
    LET eventLocationType ==
            IF event.locationType = None THEN "exact"
            ELSE Val(event.locationType)
        hasAreaFilter == filter.areas # None /\ Len(Val(filter.areas)) > 0
        hasRadiusFilter ==
            /\ filter.center # None
            /\ filter.radius # None /\ Val(filter.radius) # 0
        matchesAreaFilter ==
            /\ hasAreaFilter /\ event.area # None
            /\ Includes(Val(filter.areas), Val(event.area))
        matchesRadiusFilter ==
            /\ hasRadiusFilter /\ event.coordinates # None
            /\ calculateDistance(Val(filter.center), Val(event.coordinates))
                   <= Val(filter.radius)
    IN  IF eventLocationType = "approximate"
           /\ filter.includeApproximate # Some(TRUE)
        THEN FALSE
        ELSE IF ~hasAreaFilter /\ ~hasRadiusFilter THEN TRUE
        ELSE matchesAreaFilter \/ matchesRadiusFilter

\* A faulty KeepsEvent: an event without coordinates is measured from the
\* center of its area.
KeepsEvent_usesAreaCenter(event, filter) ==
    IF event.coordinates = None /\ event.area = None THEN FALSE
    ELSE
    LET eventLocationType ==
            IF event.locationType = None THEN "approximate"
            ELSE Val(event.locationType)
        hasAreaFilter == filter.areas # None /\ Len(Val(filter.areas)) > 0
        hasRadiusFilter ==
            /\ filter.center # None
            /\ filter.radius # None /\ Val(filter.radius) # 0
        matchesAreaFilter ==
            /\ hasAreaFilter /\ event.area # None
            /\ Includes(Val(filter.areas), Val(event.area))
        position == IF event.coordinates # None THEN Val(event.coordinates)
                    ELSE AREA_CENTER_COORDINATES[Val(event.area)]
        matchesRadiusFilter ==
            /\ hasRadiusFilter
            /\ calculateDistance(Val(filter.center), position)
                   <= Val(filter.radius)
    IN  IF eventLocationType = "approximate"
           /\ filter.includeApproximate # Some(TRUE)
        THEN FALSE
        ELSE IF ~hasAreaFilter /\ ~hasRadiusFilter THEN TRUE
        ELSE matchesAreaFilter \/ matchesRadiusFilter

\* A faulty KeepsEvent: an event must match every active sub-filter.
KeepsEvent_intersection(event, filter) ==
    IF event.coordinates = None /\ event.area = None THEN FALSE
    ELSE
    LET eventLocationType ==
            IF event.locationType = None THEN "approximate"
            ELSE Val(event.locationType)
        hasAreaFilter == filter.areas # None /\ Len(Val(filter.areas)) > 0
        hasRadiusFilter ==
            /\ filter.center # None
            /\ filter.radius # None /\ Val(filter.radius) # 0
        matchesAreaFilter ==
            /\ hasAreaFilter /\ event.area # None
            /\ Includes(Val(filter.areas), Val(event.area))
        matchesRadiusFilter ==
            /\ hasRadiusFilter /\ event.coordinates # None
            /\ calculateDistance(Val(filter.center), Val(event.coordinates))
                   <= Val(filter.radius)
    IN  IF eventLocationType = "approximate"
           /\ filter.includeApproximate # Some(TRUE)
        THEN FALSE
        ELSE IF ~hasAreaFilter /\ ~hasRadiusFilter THEN TRUE
        ELSE /\ hasAreaFilter => matchesAreaFilter
             /\ hasRadiusFilter => matchesRadiusFilter

\* A faulty KeepsEvent: an event on the circle of the radius filter is
\* outside it.
KeepsEvent_strict(event, filter) ==
    IF event.coordinates = None /\ event.area = None THEN FALSE
    ELSE
    LET eventLocationType ==
            IF event.locationType = None THEN "approximate"
            ELSE Val(event.locationType)
        hasAreaFilter == filter.areas # None /\ Len(Val(filter.areas)) > 0
        hasRadiusFilter ==
            /\ filter.center # None
            /\ filter.radius # None /\ Val(filter.radius) # 0
        matchesAreaFilter ==
            /\ hasAreaFilter /\ event.area # None
            /\ Includes(Val(filter.areas), Val(event.area))
        matchesRadiusFilter ==
            /\ hasRadiusFilter /\ event.coordinates # None
            /\ calculateDistance(Val(filter.center), Val(event.coordinates))
                   < Val(filter.radius)
    IN  IF eventLocationType = "approximate"
           /\ filter.includeApproximate # Some(TRUE)
        THEN FALSE
        ELSE IF ~hasAreaFilter /\ ~hasRadiusFilter THEN TRUE
        ELSE matchesAreaFilter \/ matchesRadiusFilter

\* The callback of events.filter(...) in filterEventsByLocation. A value is
\* truthy as in JavaScript: an object or an array always, a number unless it
\* is 0, a boolean when true, an absent field never.
KeepsEvent(event, locationFilter) ==
    IF event.coordinates = None /\ event.area = None THEN FALSE
    ELSE
    LET eventLocationType ==
            IF event.locationType = None THEN "approximate"
            ELSE Val(event.locationType)
        hasAreaFilter ==
            locationFilter.areas # None /\ Len(Val(locationFilter.areas)) > 0
        hasRadiusFilter ==
            /\ locationFilter.center # None
            /\ locationFilter.radius # None /\ Val(locationFilter.radius) # 0
        matchesAreaFilter ==
            /\ hasAreaFilter /\ event.area # None
            /\ Includes(Val(locationFilter.areas), Val(event.area))
        matchesRadiusFilter ==
            /\ hasRadiusFilter /\ event.coordinates # None
            /\ calculateDistance(Val(locationFilter.center),
                                 Val(event.coordinates))
                   <= Val(locationFilter.radius)
    IN  IF eventLocationType = "approximate"
           /\ locationFilter.includeApproximate # Some(TRUE)
        THEN FALSE
        ELSE IF ~hasAreaFilter /\ ~hasRadiusFilter THEN TRUE
        ELSE matchesAreaFilter \/ matchesRadiusFilter

filterEventsByLocation(evts, filter) ==
    SelectSeq(evts, LAMBDA event : KeepsEvent(event, filter))

\* The events handed to the filter: each with or without coordinates, area
\* and locationType. HayesValley lies 446 m from SFCenter, SomaCenter 1417 m.
EventCoordinates == {HayesValley, SomaCenter}
EventAreas == {"soma", "castro"}
Events ==
    [coordinates : {None} \cup {Some(c) : c \in EventCoordinates},
     area : {None} \cup {Some(a) : a \in EventAreas},
     locationType : {None, Some("exact"), Some("approximate")}]

EventLists == UNION {[1..n -> Events] : n \in 0..MaxEvents}

\* The LocationFilter values handed to the filter: every field present or
\* absent; an empty and two non-empty area lists; a radius of 0, below 0,
\* equal to the distance of HayesValley from the center, 1 km and 2 km.
BoundaryRadius == calculateDistance(SFCenter, HayesValley)
FilterAreas == {<<>>, <<"soma">>, <<"mission", "soma">>}
FilterRadii == {0, -1000, BoundaryRadius, 1000, 2000}
LocationFilters ==
    [areas : {None} \cup {Some(a) : a \in FilterAreas},
     center : {None, Some(SFCenter)},
     radius : {None} \cup {Some(r) : r \in FilterRadii},
     includeApproximate : {None, Some(TRUE), Some(FALSE)}]

\* filterEventsByLocation(events, locationFilter) is about to be called.
FilterInit ==
    /\ events \in EventLists
    /\ locationFilterArg \in {Some(f) : f \in LocationFilters}
    /\ filteredEvents = None
    /\ pc = "filter"
    /\ location = None
    /\ hist = <<>>
    /\ markerArgs = None /\ markers = <<>> /\ cursor = 0
    /\ now = 0 /\ firstRun = None
    /\ prismaEvents = <<>> /\ convertedEvents = <<>> /\ resolutions = None

\* The call returns.
FilterEventsByLocation ==
    /\ pc = "filter"
    /\ filteredEvents' = Some(filterEventsByLocation(events, Val(locationFilterArg)))
    /\ pc' = "done"
    /\ UNCHANGED <<events, locationFilterArg, location, hist>>
    /\ UNCHANGED <<markerArgs, markers, cursor, now, firstRun>>
    /\ UNCHANGED <<prismaEvents, convertedEvents, resolutions>>

FilterNext == FilterEventsByLocation

FilterSpec == FilterInit /\ [][FilterNext]_vars

Filtered == pc = "done"
TheFilter == Val(locationFilterArg)
Kept(i) == Includes(Val(filteredEvents), events[i])

----------------------------------------------------------------------------
(* Reading the history *)

Called == Len(hist) >= 1
Last == hist[Len(hist)]
CalledTwice == Len(hist) = 2
First == hist[1]

LastIsToggleArea == Called /\ Last.op = "toggleArea"
LastIsToggleCenter == Called /\ Last.op = "toggleCenter"

SameCoordinates(c1, c2) == c1.lat = c2.lat /\ c1.lng = c2.lng

\* The last two calls were the same toggleAreaSelection(x), back to back.
ToggledAreaTwice ==
    /\ CalledTwice
    /\ First.op = "toggleArea" /\ Last.op = "toggleArea"
    /\ First.area = Last.area

\* The last two calls were the same toggleCoordinateSelection(c, r), back to back.
ToggledCenterTwice ==
    /\ CalledTwice
    /\ First.op = "toggleCenter" /\ Last.op = "toggleCenter"
    /\ First.center = Last.center
    /\ First.radius = Last.radius

\* Position of x in seq (0 when it is not there).
IndexOf(seq, x) ==
    IF Includes(seq, x) THEN CHOOSE i \in 1..Len(seq) : seq[i] = x ELSE 0

NoDuplicates(seq) ==
    \A i, j \in 1..Len(seq) : seq[i] = seq[j] => i = j

----------------------------------------------------------------------------
(* C1: toggleArea(code) on a state whose only selected area is code leaves
   nothing selected: no area, no center and no radius, even when a
   center/radius was active before the call. *)
C1_LastAreaClearsAll ==
    (LastIsToggleArea /\ selectedAreas(Last.pre) = <<Val(Last.area)>>)
        => /\ selectedAreas(location) = <<>>
           /\ selectedCenter(location) = None
           /\ selectedRadiusKm(location) = None

\* Scenario E: areas = {mission}, toggleCenter({1,1}, 2), toggleArea(mission).
C1_Witness ==
    /\ CalledTwice
    /\ selectedAreas(First.pre) = <<"mission">>
    /\ selectedCenter(First.pre) = None
    /\ First.op = "toggleCenter"
    /\ First.center = Some(OneOne) /\ First.radius = Some(2000)
    /\ selectedCenter(Last.pre) = Some(OneOne)
    /\ Last.op = "toggleArea" /\ Last.area = Some("mission")
    /\ location = None

(* C2: toggleArea(code) flips the membership of exactly that code: removed
   when it was selected, appended at the end when it was not; every other
   selected area keeps its membership and its place relative to the others. *)
C2_ToggleAreaFlipsOne ==
    LastIsToggleArea =>
        LET code == Val(Last.area)
            old == selectedAreas(Last.pre)
            new == selectedAreas(location)
        IN  /\ Includes(new, code) = ~Includes(old, code)
            /\ \A other \in SanFranciscoArea \ {code} :
                   Includes(new, other) = Includes(old, other)
            /\ \A a, b \in SeqToSet(old) \ {code} :
                   (IndexOf(old, a) < IndexOf(old, b))
                       = (IndexOf(new, a) < IndexOf(new, b))
            /\ Includes(new, code) => new[Len(new)] = code
            /\ NoDuplicates(new)

\* toggle soma, toggle mission, toggle soma leaves exactly [mission]
\* (seen at its last step: [soma, mission] minus soma).
C2_Witness ==
    /\ CalledTwice
    /\ selectedAreas(First.pre) = <<"soma">>
    /\ First.op = "toggleArea" /\ First.area = Some("mission")
    /\ selectedAreas(Last.pre) = <<"soma", "mission">>
    /\ Last.op = "toggleArea" /\ Last.area = Some("soma")
    /\ selectedAreas(location) = <<"mission">>

(* C3: whenever toggleArea(code) leaves a non-empty selectedAreas, the
   selected center and radius are what they were before the call. *)
C3_ToggleAreaKeepsCenter ==
    (LastIsToggleArea /\ selectedAreas(location) # <<>>)
        => /\ selectedCenter(location) = selectedCenter(Last.pre)
           /\ selectedRadiusKm(location) = selectedRadiusKm(Last.pre)

C3_Witness ==
    /\ LastIsToggleArea
    /\ selectedAreas(location) # <<>>
    /\ selectedCenter(Last.pre) = Some(SFCenter)
    /\ selectedRadiusKm(Last.pre) = Some(1000)
    /\ selectedCenter(location) = Some(SFCenter)

(* C4: toggleCenter(coordinates, radiusKm) on a state whose selected center
   has the same lat and lng as coordinates, whatever radiusKm is, deselects
   the center: with areas selected, center and radius go and the areas stay
   as they are; with no area selected, nothing stays selected. *)
C4_ToggleSameCenterDeselects ==
    (/\ LastIsToggleCenter
     /\ selectedCenter(Last.pre) # None
     /\ SameCoordinates(Val(selectedCenter(Last.pre)), Val(Last.center)))
        => /\ selectedCenter(location) = None
           /\ selectedRadiusKm(location) = None
           /\ selectedAreas(location) = selectedAreas(Last.pre)
           /\ selectedAreas(Last.pre) = <<>> => location = None

\* The center is deselected with another radius than it was selected with,
\* and the selected areas stay.
C4_Witness ==
    /\ LastIsToggleCenter
    /\ selectedCenter(Last.pre) = Last.center
    /\ selectedRadiusKm(Last.pre) # Last.radius
    /\ Len(selectedAreas(Last.pre)) = 2
    /\ selectedCenter(location) = None
    /\ selectedAreas(location) = selectedAreas(Last.pre)

(* C5: toggleCenter(coordinates, radiusKm) on a state with no selected
   center, or with a selected center that differs from coordinates, selects
   coordinates with radiusKm (in place of any previous center) and leaves
   selectedAreas as it was. *)
C5_ToggleOtherCenterSelects ==
    (/\ LastIsToggleCenter
     /\ \/ selectedCenter(Last.pre) = None
        \/ ~SameCoordinates(Val(selectedCenter(Last.pre)), Val(Last.center)))
        => /\ selectedCenter(location) = Last.center
           /\ selectedRadiusKm(location) = Last.radius
           /\ selectedAreas(location) = selectedAreas(Last.pre)

\* A center of the same latitude replaces the selected one, areas kept.
C5_Witness ==
    /\ LastIsToggleCenter
    /\ selectedCenter(Last.pre) = Some(SFCenterEast)
    /\ Last.center = Some(SFCenter)
    /\ selectedAreas(Last.pre) = <<"castro">>
    /\ selectedCenter(location) = Some(SFCenter)
    /\ selectedAreas(location) = <<"castro">>

(* C6: toggleArea(x) called twice in a row leaves selectedAreas with the
   members it had before the first call; from a state with nothing selected
   it ends with no selected area and no selected center. *)
C6_ToggleAreaTwiceRestoresMembers ==
    ToggledAreaTwice =>
        /\ SeqToSet(selectedAreas(location)) = SeqToSet(selectedAreas(First.pre))
        \* scenario D: from the empty selection the two calls end in it
        /\ First.pre = None => location = None

\* The restored selection has the same members in another order.
C6_Witness ==
    /\ ToggledAreaTwice
    /\ Len(selectedAreas(First.pre)) = 2
    /\ selectedAreas(location) # selectedAreas(First.pre)
    /\ SeqToSet(selectedAreas(location)) = SeqToSet(selectedAreas(First.pre))

(* C7 as stated: toggleCenter(coordinates, radiusKm) called twice in a row
   leaves selectedCenter and selectedRadiusKm as they were before the first
   call, whatever was selected beforehand. *)
C7_Original_ToggleCenterTwiceRestores ==
    ToggledCenterTwice =>
        /\ selectedCenter(location) = selectedCenter(First.pre)
        /\ selectedRadiusKm(location) = selectedRadiusKm(First.pre)

(* C7 amended: toggleCenter(coordinates, radiusKm) called twice in a row
   leaves selectedCenter and selectedRadiusKm as they were before the first
   call when no center was selected beforehand, or when coordinates was
   selected with radius radiusKm. When another center was selected
   beforehand the two calls leave no center selected; when coordinates was
   selected with another radius they leave it selected with radiusKm. *)
C7_ToggleCenterTwice ==
    ToggledCenterTwice =>
        LET before == selectedCenter(First.pre)
            sameBefore == before # None
                          /\ SameCoordinates(Val(before), Val(Last.center))
        IN  /\ (before = None \/ (sameBefore
                                  /\ selectedRadiusKm(First.pre) = Last.radius))
                 => /\ selectedCenter(location) = selectedCenter(First.pre)
                    /\ selectedRadiusKm(location) = selectedRadiusKm(First.pre)
            /\ (before # None /\ ~sameBefore)
                 => /\ selectedCenter(location) = None
                    /\ selectedRadiusKm(location) = None
            /\ (sameBefore /\ selectedRadiusKm(First.pre) # Last.radius)
                 => /\ selectedCenter(location) = Last.center
                    /\ selectedRadiusKm(location) = Last.radius

\* Another center was selected before the two calls; none is afterwards.
C7_Witness ==
    /\ ToggledCenterTwice
    /\ selectedCenter(First.pre) = Some(SFCenterEast)
    /\ Last.center = Some(SFCenter)
    /\ selectedCenter(location) = None

(* C8: areas and pins are toggled independently: toggling an area never
   changes the selected center and radius, and toggling a center never
   changes the set of selected areas. *)
C8_IndependentToggles ==
    /\ LastIsToggleArea
         => /\ selectedCenter(location) = selectedCenter(Last.pre)
            /\ selectedRadiusKm(location) = selectedRadiusKm(Last.pre)
    /\ LastIsToggleCenter
         => SeqToSet(selectedAreas(location)) = SeqToSet(selectedAreas(Last.pre))

----------------------------------------------------------------------------
(* The decision procedure of the location filter, step by step. A radius
   filter counts as active by RadiusActive, an approximate event is turned
   away by Excluded; both are parameters so that the procedure can be read
   with the words of the claim and with those of the code. *)
DecisionProcedure(event, f, RadiusActive(_), ExcludesApproximate(_)) ==
    LET locationType == IF event.locationType = None THEN "approximate"
                        ELSE Val(event.locationType)
        areaActive == f.areas # None /\ Val(f.areas) # <<>>
        radiusActive == RadiusActive(f)
        matchesArea == /\ areaActive
                       /\ event.area # None
                       /\ Val(event.area) \in SeqToSet(Val(f.areas))
        matchesRadius ==
            /\ radiusActive
            /\ event.coordinates # None
            /\ calculateDistance(Val(f.center), Val(event.coordinates))
                   <= Val(f.radius)
    IN  CASE event.coordinates = None /\ event.area = None -> FALSE
          [] locationType = "approximate" /\ ExcludesApproximate(f) -> FALSE
          [] ~areaActive /\ ~radiusActive -> TRUE
          [] OTHER -> matchesArea \/ matchesRadius

CenterAndRadiusPresent(f) == f.center # None /\ f.radius # None
CenterAndNonZeroRadius(f) ==
    f.center # None /\ f.radius # None /\ Val(f.radius) # 0
IncludeApproximateIsFalse(f) == f.includeApproximate = Some(FALSE)
IncludeApproximateNotTrue(f) == f.includeApproximate # Some(TRUE)

(* C9 as stated: filterEventsByLocation keeps an event iff the decision
   procedure returns true, where the radius filter is active when center
   and radiusKm are both present and an approximate event is turned away
   when includeApproximate is false. *)
C9_Original_FilterFollowsProcedure ==
    Filtered =>
        Val(filteredEvents) =
            SelectSeq(events, LAMBDA e :
                DecisionProcedure(e, TheFilter, CenterAndRadiusPresent,
                                  IncludeApproximateIsFalse))

(* C9 amended: filterEventsByLocation keeps an event iff the decision
   procedure returns true, where the radius filter is active when center is
   present and radiusKm is present and not 0, and an approximate event is
   turned away when includeApproximate is not true (false or absent). The
   result is false for an event with neither coordinates nor area, true
   when no sub-filter is active, and otherwise matchesArea OR matchesRadius,
   the radius boundary included. *)
C9_FilterFollowsProcedure ==
    Filtered =>
        Val(filteredEvents) =
            SelectSeq(events, LAMBDA e :
                DecisionProcedure(e, TheFilter, CenterAndNonZeroRadius,
                                  IncludeApproximateNotTrue))

\* Both sub-filters active, the event outside the selected areas and exactly
\* on the circle of the radius filter: kept.
C9_Witness ==
    /\ Filtered
    /\ Len(events) >= 1
    /\ events[1] = [coordinates |-> Some(HayesValley), area |-> Some("castro"),
                    locationType |-> Some("exact")]
    /\ TheFilter = [areas |-> Some(<<"soma">>), center |-> Some(SFCenter),
                    radius |-> Some(BoundaryRadius),
                    includeApproximate |-> Some(TRUE)]
    /\ Kept(1)

AreaOnly(f) == [f EXCEPT !.center = None, !.radius = None]
RadiusOnly(f) == [f EXCEPT !.areas = None]

(* C10 as stated: for any area set A and any center/radius R, an event that
   passes the filter with only A, or the filter with only R, passes the
   filter with both A and R (same includeApproximate). *)
C10_Original_UnionSuperset ==
    (/\ Filtered
     /\ TheFilter.areas # None
     /\ TheFilter.center # None /\ TheFilter.radius # None)
        => \A i \in 1..Len(events) :
               (\/ KeepsEvent(events[i], AreaOnly(TheFilter))
                \/ KeepsEvent(events[i], RadiusOnly(TheFilter)))
                   => Kept(i)

(* C10 amended: for any non-empty area set A and any center with a radius
   other than 0, an event that passes the filter with only A, or the filter
   with only R, passes the filter with both A and R (same
   includeApproximate). *)
C10_UnionSuperset ==
    (/\ Filtered
     /\ TheFilter.areas # None /\ Val(TheFilter.areas) # <<>>
     /\ TheFilter.center # None
     /\ TheFilter.radius # None /\ Val(TheFilter.radius) # 0)
        => \A i \in 1..Len(events) :
               (\/ KeepsEvent(events[i], AreaOnly(TheFilter))
                \/ KeepsEvent(events[i], RadiusOnly(TheFilter)))
                   => Kept(i)

\* An event of a selected area, outside the radius: passes with A alone,
\* fails with R alone, passes with both.
C10_Witness ==
    /\ Filtered
    /\ Len(events) >= 1
    /\ events[1].area = Some("soma")
    /\ events[1].coordinates = Some(SomaCenter)
    /\ TheFilter.areas = Some(<<"soma">>)
    /\ TheFilter.center = Some(SFCenter)
    /\ TheFilter.radius = Some(1000)
    /\ KeepsEvent(events[1], AreaOnly(TheFilter))
    /\ ~KeepsEvent(events[1], RadiusOnly(TheFilter))
    /\ Kept(1)

----------------------------------------------------------------------------
\* The filter has no areas (absent or empty), no center and no radius.
NoAreasNoCenterNoRadius(f) ==
    /\ f.areas = None \/ f.areas = Some(<<>>)
    /\ f.center = None /\ f.radius = None

HasSpatialData(event) == event.coordinates # None \/ event.area # None

IsApproximate(event) ==
    event.locationType = None \/ event.locationType = Some("approximate")

(* C11 as stated: any event that has coordinates or an area passes a
   LocationFilter that has no areas (absent or empty) and no center and
   radius. *)
C11_Original_NoFilterPassThrough ==
    (Filtered /\ NoAreasNoCenterNoRadius(TheFilter))
        => \A i \in 1..Len(events) : HasSpatialData(events[i]) => Kept(i)

(* C11 amended: any event that has coordinates or an area, and whose
   locationType is "exact" or that is filtered with includeApproximate
   true, passes a LocationFilter that has no areas (absent or empty) and no
   center and radius. *)
C11_NoFilterPassThrough ==
    (Filtered /\ NoAreasNoCenterNoRadius(TheFilter))
        => \A i \in 1..Len(events) :
               (/\ HasSpatialData(events[i])
                /\ \/ ~IsApproximate(events[i])
                   \/ TheFilter.includeApproximate = Some(TRUE))
                   => Kept(i)

\* An area-only event without locationType passes the filter
\* { areas: [], includeApproximate: true }.
C11_Witness ==
    /\ Filtered
    /\ Len(events) >= 1
    /\ events[1] = [coordinates |-> None, area |-> Some("castro"),
                    locationType |-> None]
    /\ TheFilter = [areas |-> Some(<<>>), center |-> None, radius |-> None,
                    includeApproximate |-> Some(TRUE)]
    /\ Val(filteredEvents) = events

(* C12: an event whose locationType is "approximate" or unspecified fails
   every LocationFilter with includeApproximate = false, even when its area
   is in filter.areas; with includeApproximate = true an event with area
   soma passes a filter whose areas hold soma. *)
C12_ApproximateNeedsInclude ==
    Filtered =>
        \A i \in 1..Len(events) :
            /\ (IsApproximate(events[i])
                /\ TheFilter.includeApproximate = Some(FALSE))
                   => ~Kept(i)
            /\ (/\ TheFilter.includeApproximate = Some(TRUE)
                /\ events[i].area = Some("soma")
                /\ TheFilter.areas # None
                /\ "soma" \in SeqToSet(Val(TheFilter.areas)))
                   => Kept(i)

\* Scenario C, second half: area soma, no locationType, areas = {soma},
\* includeApproximate = false: turned away.
C12_Witness ==
    /\ Filtered
    /\ Len(events) >= 1
    /\ events[1] = [coordinates |-> None, area |-> Some("soma"),
                    locationType |-> None]
    /\ TheFilter = [areas |-> Some(<<"soma">>), center |-> None,
                    radius |-> None, includeApproximate |-> Some(FALSE)]
    /\ Val(filteredEvents) = <<>>

(* C13: an event without coordinates never satisfies the radius sub-filter:
   a filter whose only active sub-filter is center + radius turns it away,
   also when the center of its area lies within the radius. *)
C13_AreaOnlyFailsRadius ==
    (/\ Filtered
     /\ TheFilter.areas = None \/ TheFilter.areas = Some(<<>>)
     /\ TheFilter.center # None
     /\ TheFilter.radius # None /\ Val(TheFilter.radius) # 0)
        => \A i \in 1..Len(events) :
               events[i].coordinates = None => ~Kept(i)

\* The event's area is soma, whose center lies within the 2 km radius.
C13_Witness ==
    /\ Filtered
    /\ Len(events) >= 1
    /\ events[1] = [coordinates |-> None, area |-> Some("soma"),
                    locationType |-> Some("approximate")]
    /\ TheFilter = [areas |-> None, center |-> Some(SFCenter),
                    radius |-> Some(2000),
                    includeApproximate |-> Some(TRUE)]
    /\ calculateDistance(SFCenter, AREA_CENTER_COORDINATES["soma"]) <= 2000
    /\ Val(filteredEvents) = <<>>

WithoutRadiusFilter(f) == [f EXCEPT !.center = None, !.radius = None]

(* C14: a LocationFilter whose radius is 0 or negative is treated as having
   no radius filter: it gives for every event the result of the same filter
   with center and radius removed. *)
C14_NonPositiveRadiusInactive ==
    (/\ Filtered
     /\ TheFilter.radius # None /\ Val(TheFilter.radius) <= 0)
        => Val(filteredEvents)
               = filterEventsByLocation(events, WithoutRadiusFilter(TheFilter))

----------------------------------------------------------------------------
(* useEventMarkers: the clustering pass *)

\* Default of the parameter clusterRadius, and the radius EventMap passes.
DefaultClusterRadius == 100

\* The radius useEventMarkers hands areCoordinatesNear for the selected
\* coordinates.
SelectionRadius == 50

\* DATABASE_AREA_COORDINATES, for the names of this model.
DATABASE_AREA_COORDINATES ==
    [areaName \in {"SOMA", "Mission", "Hayes Valley", "Embarcadero"} |->
        CASE areaName = "SOMA" -> AREA_CENTER_COORDINATES["soma"]
          [] areaName = "Mission" -> AREA_CENTER_COORDINATES["mission"]
          [] areaName = "Hayes Valley" -> AREA_CENTER_COORDINATES["hayes-valley"]
          [] areaName = "Embarcadero" -> EmbarcaderoPoint]

getAreaCoordinatesFlexible(areaName) ==
    IF areaName \in DOMAIN DATABASE_AREA_COORDINATES
    THEN Some(DATABASE_AREA_COORDINATES[areaName])
    ELSE IF areaName \in DOMAIN AREA_CENTER_COORDINATES
    THEN Some(AREA_CENTER_COORDINATES[areaName])
    ELSE None

\* A faulty getEventCoordinates: an event that cannot be placed is put at the
\* center of the map.
getEventCoordinates_fallsBack(event) ==
    IF event.coordinates # None THEN event.coordinates
    ELSE IF event.area # None
            /\ getAreaCoordinatesFlexible(Val(event.area)) # None
    THEN getAreaCoordinatesFlexible(Val(event.area))
    ELSE Some(SFCenter)

\* A faulty getEventCoordinates: the area is looked at first.
getEventCoordinates_areaFirst(event) ==
    IF event.area # None /\ getAreaCoordinatesFlexible(Val(event.area)) # None
    THEN getAreaCoordinatesFlexible(Val(event.area))
    ELSE event.coordinates

getEventCoordinates(event) ==
    IF event.coordinates # None THEN event.coordinates
    ELSE IF event.area # None THEN getAreaCoordinatesFlexible(Val(event.area))
    ELSE None

\* A faulty areCoordinatesNear: the radius itself is too far.
areCoordinatesNear_strict(coord1, coord2, radiusMeters) ==
    calculateDistance(coord1, coord2) < radiusMeters

areCoordinatesNear(coord1, coord2, radiusMeters) ==
    calculateDistance(coord1, coord2) <= radiusMeters

\* markers.find(marker => areCoordinatesNear(marker.coordinates, coordinates,
\* clusterRadius)): the position of the first such marker, 0 for undefined.
\* A faulty find: the last such marker.
find_last(markerList, coordinates, clusterRadius) ==
    LET near == {i \in 1..Len(markerList) :
                    areCoordinatesNear(markerList[i].coordinates, coordinates,
                                       clusterRadius)}
    IN  IF near = {} THEN 0 ELSE CHOOSE i \in near : \A j \in near : j <= i

find(markerList, coordinates, clusterRadius) ==
    LET near == {i \in 1..Len(markerList) :
                    areCoordinatesNear(markerList[i].coordinates, coordinates,
                                       clusterRadius)}
    IN  IF near = {} THEN 0 ELSE CHOOSE i \in near : \A j \in near : i <= j

\* event.area && selectedAreas.includes(event.area): undefined, false or true.
isAreaSelected(event, selAreas) ==
    IF event.area = None THEN None
    ELSE Some(Includes(selAreas, Val(event.area)))

\* A faulty isCoordinateSelected: the default radius of areCoordinatesNear.
isCoordinateSelected_defaultRadius(coordinates, selCoordinates) ==
    IF selCoordinates = None THEN None
    ELSE Some(areCoordinatesNear(coordinates, Val(selCoordinates),
                                 DefaultClusterRadius))

\* selectedCoordinates && areCoordinatesNear(coordinates, selectedCoordinates,
\* 50): undefined, false or true.
isCoordinateSelected(coordinates, selCoordinates) ==
    IF selCoordinates = None THEN None
    ELSE Some(areCoordinatesNear(coordinates, Val(selCoordinates),
                                 SelectionRadius))

\* JavaScript's a || b on undefined, false and true.
JsOr(a, b) == IF a = Some(TRUE) THEN a ELSE b

Truthy(a) == a = Some(TRUE)

\* The reduce over the members: the categories in the order in which the
\* keys are first set, each with its count.
RECURSIVE categoryCounts(_)
categoryCounts(evts) ==
    IF evts = <<>> THEN <<>>
    ELSE LET acc == categoryCounts(SubSeq(evts, 1, Len(evts) - 1))
             e == evts[Len(evts)]
             at == {i \in 1..Len(acc) : acc[i][1] = e.category}
         IN  IF at = {} THEN Append(acc, <<e.category, 1>>)
             ELSE LET i == CHOOSE k \in at : TRUE
                  IN  [acc EXCEPT ![i] = <<e.category, acc[i][2] + 1>>]

\* Array.prototype.sort with ([,a], [,b]) => b - a: descending by count,
\* entries of equal count keep their order.
RECURSIVE InsertEntry(_, _)
InsertEntry(sorted, entry) ==
    IF sorted = <<>> THEN <<entry>>
    ELSE IF Head(sorted)[2] >= entry[2]
    THEN <<Head(sorted)>> \o InsertEntry(Tail(sorted), entry)
    ELSE <<entry>> \o sorted

RECURSIVE sort(_)
sort(entries) ==
    IF entries = <<>> THEN <<>>
    ELSE InsertEntry(sort(SubSeq(entries, 1, Len(entries) - 1)),
                     entries[Len(entries)])

\* A faulty primaryCategory: the category of the newest member.
primaryCategory_newest(evts, previous) == evts[Len(evts)].category

\* Object.entries(categoryCounts).sort(...)[0]?.[0] || previous
primaryCategory(evts, previous) ==
    LET sorted == sort(categoryCounts(evts))
    IN  IF sorted = <<>> THEN previous ELSE sorted[1][1]

\* A faulty push onto existingMarker: the marker moves to the new member.
pushEvent_recenters(existingMarker, event, coordinates, selAreas, selCoordinates) ==
    LET members == Append(existingMarker.events, event)
        selected == JsOr(isAreaSelected(event, selAreas),
                         isCoordinateSelected(coordinates, selCoordinates))
    IN  [existingMarker EXCEPT
            !.events = members,
            !.coordinates = coordinates,
            !.isCluster = Len(members) > 1,
            !.isSelected = IF Truthy(selected) THEN Some(TRUE) ELSE @,
            !.primaryCategory = primaryCategory(members, @)]

\* A faulty push onto existingMarker: isCluster is left as it was.
pushEvent_keepsIsCluster(existingMarker, event, coordinates, selAreas, selCoordinates) ==
    LET members == Append(existingMarker.events, event)
        selected == JsOr(isAreaSelected(event, selAreas),
                         isCoordinateSelected(coordinates, selCoordinates))
    IN  [existingMarker EXCEPT
            !.events = members,
            !.isSelected = IF Truthy(selected) THEN Some(TRUE) ELSE @,
            !.primaryCategory = primaryCategory(members, @)]

\* The branch `if (existingMarker)`: the marker after the event joined it.
pushEvent(existingMarker, event, coordinates, selAreas, selCoordinates) ==
    LET members == Append(existingMarker.events, event)
        selected == JsOr(isAreaSelected(event, selAreas),
                         isCoordinateSelected(coordinates, selCoordinates))
    IN  [existingMarker EXCEPT
            !.events = members,
            !.isCluster = Len(members) > 1,
            !.isSelected = IF Truthy(selected) THEN Some(TRUE) ELSE @,
            !.primaryCategory = primaryCategory(members, @)]

\* The marker of the else branch. Its id is `marker-${event.id}-${Date.now()}`.
newMarker(event, coordinates, selAreas, selCoordinates, timestamp) ==
    [id |-> <<"marker", event.id, timestamp>>,
     coordinates |-> coordinates,
     events |-> <<event>>,
     isCluster |-> FALSE,
     locationType |-> IF event.coordinates # None THEN "exact"
                      ELSE "approximate",
     primaryCategory |-> event.category,
     area |-> event.area,
     isSelected |-> JsOr(isAreaSelected(event, selAreas),
                         isCoordinateSelected(coordinates, selCoordinates))]

\* A faulty markers.push: the new marker goes to the front.
push_front(markerList, marker) == <<marker>> \o markerList

\* markers.push(marker)
push(markerList, marker) == Append(markerList, marker)

\* The events the pass is tried on: two a few metres apart, one at exactly
\* the smaller cluster radius from the first and from the fourth, one located
\* by a registered area, one with coordinates and an area, one whose area has
\* no center, one with no location at all.
MarkerEvents ==
    { [id |-> "e1", category |-> "Conference", coordinates |-> Some(SFCenter),
       area |-> None],
      [id |-> "e2", category |-> "Workshop", coordinates |-> Some(NearSFCenter),
       area |-> None],
      [id |-> "e3", category |-> "Workshop", coordinates |-> Some(NorthOfSF),
       area |-> None],
      [id |-> "e4", category |-> "Conference",
       coordinates |-> Some(FartherNorth), area |-> None],
      [id |-> "e5", category |-> "Conference", coordinates |-> None,
       area |-> Some("mission")],
      [id |-> "e6", category |-> "Workshop", coordinates |-> Some(SFCenter),
       area |-> Some("mission")],
      [id |-> "e7", category |-> "Conference", coordinates |-> None,
       area |-> Some("embarcadero")],
      [id |-> "e8", category |-> "Workshop", coordinates |-> None,
       area |-> None] }

\* Lists of events with distinct ids.
MarkerEventLists ==
    UNION {{l \in [1..n -> MarkerEvents] : NoDuplicates(l)} :
              n \in 0..MaxMarkerEvents}

BoundaryClusterRadius == calculateDistance(SFCenter, NorthOfSF)

MarkerArgs ==
    [events : MarkerEventLists,
     clusterRadius : {DefaultClusterRadius, BoundaryClusterRadius},
     selectedAreas : {<<>>, <<"mission">>},
     selectedCoordinates : {None, Some(NearSFCenter)}]

TheArgs == Val(markerArgs)

MarkerInit ==
    /\ markerArgs \in {Some(a) : a \in MarkerArgs}
    /\ markers = <<>>
    /\ cursor = 1
    /\ now = 0
    /\ firstRun = None
    /\ pc = "cluster"
    /\ location = None /\ hist = <<>>
    /\ events = <<>> /\ locationFilterArg = None /\ filteredEvents = None
    /\ prismaEvents = <<>> /\ convertedEvents = <<>> /\ resolutions = None

MarkerIdle ==
    UNCHANGED <<location, hist, events, locationFilterArg, filteredEvents,
                markerArgs, prismaEvents, convertedEvents, resolutions>>

\* forEach meets an event that getEventCoordinates cannot place.
SkipEvent ==
    /\ pc = "cluster" /\ cursor <= Len(TheArgs.events)
    /\ getEventCoordinates(TheArgs.events[cursor]) = None
    /\ cursor' = cursor + 1
    /\ UNCHANGED <<markers, now, firstRun, pc>>
    /\ MarkerIdle

\* forEach meets an event near a marker: it joins the first such marker.
AddToCluster ==
    /\ pc = "cluster" /\ cursor <= Len(TheArgs.events)
    /\ LET event == TheArgs.events[cursor]
           resolved == getEventCoordinates(event)
       IN  /\ resolved # None
           /\ LET i == find(markers, Val(resolved), TheArgs.clusterRadius)
              IN  /\ i # 0
                  /\ markers' =
                       [markers EXCEPT ![i] =
                           pushEvent(markers[i], event, Val(resolved),
                                     TheArgs.selectedAreas,
                                     TheArgs.selectedCoordinates)]
    /\ cursor' = cursor + 1
    /\ UNCHANGED <<now, firstRun, pc>>
    /\ MarkerIdle

\* forEach meets an event near no marker: it gets a marker of its own.
CreateMarker ==
    /\ pc = "cluster" /\ cursor <= Len(TheArgs.events)
    /\ LET event == TheArgs.events[cursor]
           resolved == getEventCoordinates(event)
       IN  /\ resolved # None
           /\ find(markers, Val(resolved), TheArgs.clusterRadius) = 0
           /\ markers' =
                push(markers,
                     newMarker(event, Val(resolved), TheArgs.selectedAreas,
                               TheArgs.selectedCoordinates, now))
    /\ cursor' = cursor + 1
    /\ UNCHANGED <<now, firstRun, pc>>
    /\ MarkerIdle

\* forEach is through; the callback returns markers.
ReturnMarkers ==
    /\ pc = "cluster" /\ cursor > Len(TheArgs.events)
    /\ pc' = "returned"
    /\ UNCHANGED <<markers, cursor, now, firstRun>>
    /\ MarkerIdle

\* The callback runs once more on the same arguments (a remount, or another
\* component using the hook), at the same or a later time.
RunAgain ==
    /\ pc = "returned" /\ firstRun = None
    /\ firstRun' = Some(markers)
    /\ markers' = <<>>
    /\ cursor' = 1
    /\ now' \in {now, now + 1}
    /\ pc' = "cluster"
    /\ MarkerIdle

MarkerNext ==
    \/ SkipEvent
    \/ AddToCluster
    \/ CreateMarker
    \/ ReturnMarkers
    \/ RunAgain

MarkerSpec == MarkerInit /\ [][MarkerNext]_vars

----------------------------------------------------------------------------
\* What a caller tells two marker lists apart by: how many markers, in which
\* order, where, and with which members in which order.
Membership(markerList) ==
    [i \in 1..Len(markerList) |->
        [coordinates |-> markerList[i].coordinates,
         events |-> markerList[i].events]]

Returned == pc = "returned"
ReturnedTwice == pc = "returned" /\ firstRun # None

\* Position in the input of the event with which the marker was created.
FirstMemberIndex(marker) == IndexOf(TheArgs.events, marker.events[1])

(* C15: two runs of useEventMarkers on the same events, clusterRadius,
   selectedAreas and selectedCoordinates return equally many markers in the
   same order, with the same coordinates and the same members in the same
   order; the markers are in the order in which they were created, which is
   the order of their first members in the input. *)
C15_ClusteringDeterminism ==
    /\ ReturnedTwice => Membership(markers) = Membership(Val(firstRun))
    /\ Returned =>
           \A i, j \in 1..Len(markers) :
               i < j => FirstMemberIndex(markers[i]) < FirstMemberIndex(markers[j])

\* Two runs at different times, of two markers or more, one a cluster: the
\* ids differ, the rest does not.
C15_Witness ==
    /\ ReturnedTwice
    /\ Len(markers) >= 2
    /\ \E i \in 1..Len(markers) : Len(markers[i].events) >= 2
    /\ markers[1].id # Val(firstRun)[1].id
    /\ Membership(markers) = Membership(Val(firstRun))

\* The coordinates the pass places the event at.
Resolved(event) == Val(getEventCoordinates(event))

Resolvable(event) == getEventCoordinates(event) # None

WithinRadius(coord1, coord2) ==
    calculateDistance(coord1, coord2) <= TheArgs.clusterRadius

\* The events forEach is through with.
Processed == {TheArgs.events[n] : n \in 1..(cursor - 1)}

(* C16: each resolvable event joins the earliest-created marker whose
   coordinates are within clusterRadius (inclusive) of the event's resolved
   coordinates, and a marker is created only when no marker qualifies: every
   member of a marker is within the radius of it and of no marker created
   before it, and every processed resolvable event is a member of a marker. *)
C16_GreedyFirstMatch ==
    /\ \A j \in 1..Len(markers) : \A m \in 1..Len(markers[j].events) :
           LET c == Resolved(markers[j].events[m])
           IN  /\ WithinRadius(markers[j].coordinates, c)
               /\ \A k \in 1..(j - 1) : ~WithinRadius(markers[k].coordinates, c)
    /\ \A e \in Processed :
           Resolvable(e) =>
               \E j \in 1..Len(markers) : Includes(markers[j].events, e)

\* Scenarios A and B at radius 100: two events 14 m apart share a marker, an
\* event 133 m away has its own.
C16_Witness ==
    /\ Returned
    /\ TheArgs.clusterRadius = DefaultClusterRadius
    /\ Len(TheArgs.events) = 3
    /\ TheArgs.events[1].coordinates = Some(SFCenter)
    /\ TheArgs.events[2].coordinates = Some(NearSFCenter)
    /\ TheArgs.events[3].coordinates = Some(FartherNorth)
    /\ Len(markers) = 2
    /\ markers[1].events = SubSeq(TheArgs.events, 1, 2)
    /\ markers[2].events = SubSeq(TheArgs.events, 3, 3)

(* C17: a marker's coordinates are the resolved coordinates of its first
   member, and a step of the pass changes the coordinates of no marker: no
   recentering as members join. *)
C17_CoordinatesFixed ==
    /\ [](\A j \in 1..Len(markers) :
              markers[j].coordinates = Resolved(markers[j].events[1]))
    /\ [][cursor' = cursor + 1 =>
              \A j \in 1..Len(markers) :
                  markers'[j].coordinates = markers[j].coordinates]_vars

\* A marker whose second member lies elsewhere than its first.
C17_Witness ==
    /\ Returned
    /\ \E j \in 1..Len(markers) :
           /\ Len(markers[j].events) >= 2
           /\ Resolved(markers[j].events[2]) # markers[j].coordinates
           /\ markers[j].coordinates = Resolved(markers[j].events[1])

(* C18: after every step of the pass and in the returned list, every marker
   has isCluster = (more than one member) and has at least one member. *)
C18_IsClusterIffSeveral ==
    \A j \in 1..Len(markers) :
        /\ markers[j].isCluster = (Len(markers[j].events) > 1)
        /\ Len(markers[j].events) >= 1

\* Before the pass returns: a cluster of two and a single marker.
C18_Witness ==
    /\ pc = "cluster"
    /\ \E i, j \in 1..Len(markers) :
           /\ Len(markers[i].events) = 2 /\ markers[i].isCluster
           /\ Len(markers[j].events) = 1 /\ ~markers[j].isCluster

\* How many members of the marker have the category.
CategoryCount(marker, category) ==
    Cardinality({m \in 1..Len(marker.events) :
                    marker.events[m].category = category})

\* Position of the first member of the marker that has the category.
FirstSeen(marker, category) ==
    CHOOSE m \in 1..Len(marker.events) :
        /\ marker.events[m].category = category
        /\ \A n \in 1..(m - 1) : marker.events[n].category # category

CategoriesOf(marker) ==
    {marker.events[m].category : m \in 1..Len(marker.events)}

(* C19: after every membership change the primaryCategory of a marker is a
   category with the largest member count in the marker, and among several
   categories with that count the one first seen earliest among the
   members. *)
C19_PrimaryCategoryMajority ==
    \A j \in 1..Len(markers) :
        LET marker == markers[j]
            primary == marker.primaryCategory
        IN  /\ primary \in CategoriesOf(marker)
            /\ \A c \in CategoriesOf(marker) :
                   /\ CategoryCount(marker, c) <= CategoryCount(marker, primary)
                   /\ CategoryCount(marker, c) = CategoryCount(marker, primary)
                          => FirstSeen(marker, primary) <= FirstSeen(marker, c)

\* A tie of two: the marker's second member is of another category than its
\* first, and the first member's category stays the primary one.
C19_Witness ==
    /\ pc = "cluster"
    /\ \E j \in 1..Len(markers) :
           /\ Len(markers[j].events) = 2
           /\ markers[j].events[2].category # markers[j].events[1].category
           /\ markers[j].primaryCategory = markers[j].events[1].category

\* The event matches the selection.
MatchesSelection(event) ==
    \/ /\ event.area # None
       /\ Val(event.area) \in SeqToSet(TheArgs.selectedAreas)
    \/ /\ TheArgs.selectedCoordinates # None
       /\ calculateDistance(Resolved(event), Val(TheArgs.selectedCoordinates))
              <= SelectionRadius

(* C20: a returned marker is selected (its isSelected is truthy) iff at
   least one of its members matches the selection: the member's area is in
   selectedAreas, or its resolved coordinates are within 50 m of
   selectedCoordinates, whatever clusterRadius is. *)
C20_SelectedIffMemberMatches ==
    Returned =>
        \A j \in 1..Len(markers) :
            Truthy(markers[j].isSelected)
                <=> \E m \in 1..Len(markers[j].events) :
                        MatchesSelection(markers[j].events[m])

\* A selected cluster whose first member does not match and whose second
\* does, next to a marker that is not selected.
C20_Witness ==
    /\ Returned
    /\ \E j, k \in 1..Len(markers) :
           /\ Len(markers[j].events) >= 2
           /\ ~MatchesSelection(markers[j].events[1])
           /\ MatchesSelection(markers[j].events[2])
           /\ Truthy(markers[j].isSelected)
           /\ ~Truthy(markers[k].isSelected)
           /\ \A m \in 1..Len(markers[k].events) :
                  ~MatchesSelection(markers[k].events[m])

----------------------------------------------------------------------------
\* The names that stand in one of the two tables of area-coordinates.
RegisteredNames ==
    DOMAIN DATABASE_AREA_COORDINATES \cup DOMAIN AREA_CENTER_COORDINATES

\* The event has no coordinates, and no area or an area in neither table.
CannotBePlaced(event) ==
    /\ event.coordinates = None
    /\ event.area = None \/ Val(event.area) \notin RegisteredNames

\* The markers the event is a member of.
MarkersOf(event) ==
    {j \in 1..Len(markers) : Includes(markers[j].events, event)}

RECURSIVE MemberCount(_)
MemberCount(markerList) ==
    IF markerList = <<>> THEN 0
    ELSE Len(Head(markerList).events) + MemberCount(Tail(markerList))

(* C21: the pass is not stopped by an event that cannot be placed: in the
   returned list an event with no coordinates and no area, or with an
   unregistered area, is a member of no marker, every other event of the
   input is a member of exactly one marker, and the member counts of the
   markers add up to the number of events that can be placed. *)
C21_BadEventsSkipped ==
    Returned =>
        /\ \A n \in 1..Len(TheArgs.events) :
               LET e == TheArgs.events[n]
               IN  IF CannotBePlaced(e) THEN MarkersOf(e) = {}
                   ELSE Cardinality(MarkersOf(e)) = 1
        /\ MemberCount(markers)
               = Cardinality({n \in 1..Len(TheArgs.events) :
                                 ~CannotBePlaced(TheArgs.events[n])})

\* An event of an unregistered area between two that are placed.
C21_Witness ==
    /\ Returned
    /\ Len(TheArgs.events) = 3
    /\ TheArgs.events[2].area = Some("embarcadero")
    /\ CannotBePlaced(TheArgs.events[2])
    /\ ~CannotBePlaced(TheArgs.events[1])
    /\ ~CannotBePlaced(TheArgs.events[3])
    /\ MemberCount(markers) = 2

\* The center the two tables give for the name.
RegisteredCenter(areaName) ==
    IF areaName \in DOMAIN DATABASE_AREA_COORDINATES
    THEN DATABASE_AREA_COORDINATES[areaName]
    ELSE AREA_CENTER_COORDINATES[areaName]

(* C22: an event that has coordinates is placed at exactly those, whatever
   its area; an event without coordinates is placed at the registered center
   of its area; an event without coordinates whose area is absent or not
   registered is not placed. Stated of the events the pass has worked on:
   the marker created for an event stands where the event is placed. *)
C22_ExactCoordinatesFirst ==
    /\ \A e \in Processed :
           /\ e.coordinates # None
                  => getEventCoordinates(e) = e.coordinates
           /\ e.coordinates = None /\ ~CannotBePlaced(e)
                  => getEventCoordinates(e) = Some(RegisteredCenter(Val(e.area)))
           /\ CannotBePlaced(e) => getEventCoordinates(e) = None
    /\ \A j \in 1..Len(markers) :
           LET e == markers[j].events[1]
           IN  markers[j].coordinates
                   = IF e.coordinates # None THEN Val(e.coordinates)
                     ELSE RegisteredCenter(Val(e.area))

\* An event with coordinates and an area whose center is elsewhere got a
\* marker at its coordinates; an event with the same area alone got one at
\* the center of the area.
C22_Witness ==
    /\ Returned
    /\ \E j, k \in 1..Len(markers) :
           /\ markers[j].events[1].coordinates = Some(SFCenter)
           /\ markers[j].events[1].area = Some("mission")
           /\ markers[j].coordinates = SFCenter
           /\ markers[k].events[1].coordinates = None
           /\ markers[k].events[1].area = Some("mission")
           /\ markers[k].coordinates = MissionCenter

(* C30: in a returned marker list no two distinct markers have coordinates
   within clusterRadius of each other, and the resolved coordinates of every
   member are within clusterRadius of the coordinates of its marker. *)
C30_MarkersApart ==
    Returned =>
        /\ \A j, k \in 1..Len(markers) :
               j # k => calculateDistance(markers[j].coordinates,
                                          markers[k].coordinates)
                            > TheArgs.clusterRadius
        /\ \A j \in 1..Len(markers) : \A m \in 1..Len(markers[j].events) :
               calculateDistance(Resolved(markers[j].events[m]),
                                 markers[j].coordinates)
                   <= TheArgs.clusterRadius

\* At the smaller radius: the second marker is twice the radius from the
\* first, and the member between them, at exactly the radius from both,
\* went to the first.
C30_Witness ==
    /\ Returned
    /\ TheArgs.clusterRadius = BoundaryClusterRadius
    /\ Len(markers) = 2
    /\ markers[1].coordinates = SFCenter
    /\ markers[2].coordinates = FartherNorth
    /\ Len(markers[1].events) = 2
    /\ Resolved(markers[1].events[2]) = NorthOfSF

----------------------------------------------------------------------------
(* EventsService: stored records are converted to events, and the events
   are placed as the clustering pass places them. *)

\* The keys of AREA_DISPLAY_NAMES (the members of the type SanFranciscoArea),
\* for the codes of this model.
AREA_DISPLAY_NAMES ==
    {"soma", "mission", "castro", "hayes-valley", "embarcadero"}

isSanFranciscoArea(value) == value \in AREA_DISPLAY_NAMES

\* The area names stored records carry here: table names of
\* DATABASE_AREA_COORDINATES, area codes, the same in another case or with
\* other spacing, and a name found nowhere.
AreaNames ==
    {"SOMA", "Soma", "soma", "Hayes Valley", "Hayes  Valley", "hayes-valley",
     "Embarcadero", "embarcadero", "Atlantis"}

\* The characters of a name.
Characters(name) ==
    CASE name = "SOMA" ->
              <<"S", "O", "M", "A">>
       [] name = "Soma" ->
              <<"S", "o", "m", "a">>
       [] name = "soma" ->
              <<"s", "o", "m", "a">>
       [] name = "Hayes Valley" ->
              <<"H", "a", "y", "e", "s", " ", "V", "a", "l", "l", "e", "y">>
       [] name = "Hayes  Valley" ->
              <<"H", "a", "y", "e", "s", " ", " ", "V", "a", "l", "l", "e", "y">>
       [] name = "hayes-valley" ->
              <<"h", "a", "y", "e", "s", "-", "v", "a", "l", "l", "e", "y">>
       [] name = "hayes--valley" ->
              <<"h", "a", "y", "e", "s", "-", "-", "v", "a", "l", "l", "e", "y">>
       [] name = "Embarcadero" ->
              <<"E", "m", "b", "a", "r", "c", "a", "d", "e", "r", "o">>
       [] name = "embarcadero" ->
              <<"e", "m", "b", "a", "r", "c", "a", "d", "e", "r", "o">>
       [] name = "Atlantis" ->
              <<"A", "t", "l", "a", "n", "t", "i", "s">>
       [] name = "atlantis" ->
              <<"a", "t", "l", "a", "n", "t", "i", "s">>

Letters ==
    << <<"A", "a">>, <<"E", "e">>, <<"H", "h">>, <<"M", "m">>, <<"O", "o">>,
       <<"S", "s">>, <<"V", "v">> >>

\* String.prototype.toLowerCase
toLowerCase(chars) ==
    [i \in 1..Len(chars) |->
        IF \E k \in 1..Len(Letters) : Letters[k][1] = chars[i]
        THEN Letters[CHOOSE k \in 1..Len(Letters) : Letters[k][1] = chars[i]][2]
        ELSE chars[i]]

RECURSIVE SkipWhitespace(_)
SkipWhitespace(chars) ==
    IF chars # <<>> /\ Head(chars) = " " THEN SkipWhitespace(Tail(chars))
    ELSE chars

\* String.prototype.replace(/\s+/g, "-")
RECURSIVE replaceWhitespace(_)
replaceWhitespace(chars) ==
    IF chars = <<>> THEN <<>>
    ELSE IF Head(chars) = " "
    THEN <<"-">> \o replaceWhitespace(SkipWhitespace(chars))
    ELSE <<Head(chars)>> \o replaceWhitespace(Tail(chars))

\* The name with the given characters.
NameOf(chars) ==
    CHOOSE name \in AreaNames \cup {"hayes--valley", "atlantis"} :
        Characters(name) = chars

\* area.toLowerCase().replace(/\s+/g, "-"), as getSafeAreaDisplayName
\* normalizes a name.
normalizedArea(area) ==
    NameOf(replaceWhitespace(toLowerCase(Characters(area))))

\* The stored records: an id and an optional area name.
PrismaEvents ==
    [id : {"p"}, area : {None} \cup {Some(name) : name \in AreaNames}]

PrismaEventLists ==
    UNION {[1..n -> PrismaEvents] : n \in 0..MaxPrismaEvents}

convertPrismaEventToEvent(prismaEvent) ==
    LET areaCoords ==
            IF prismaEvent.area # None
            THEN getAreaCoordinatesFlexible(Val(prismaEvent.area))
            ELSE None
    IN  [id |-> prismaEvent.id,
         area |-> prismaEvent.area,
         coordinates |-> areaCoords,
         locationType |-> Some("approximate"),
         category |-> "Meetup"]

ConvertInit ==
    /\ prismaEvents \in PrismaEventLists
    /\ convertedEvents = <<>>
    /\ resolutions = None
    /\ pc = "convert"
    /\ location = None /\ hist = <<>>
    /\ events = <<>> /\ locationFilterArg = None /\ filteredEvents = None
    /\ markerArgs = None /\ markers = <<>> /\ cursor = 0
    /\ now = 0 /\ firstRun = None

ConvertIdle ==
    UNCHANGED <<location, hist, events, locationFilterArg, filteredEvents,
                markerArgs, markers, cursor, now, firstRun, prismaEvents>>

\* prismaEvents.map(convertPrismaEventToEvent), one record per step.
ConvertPrismaEvent ==
    /\ pc = "convert"
    /\ Len(convertedEvents) < Len(prismaEvents)
    /\ convertedEvents' =
           Append(convertedEvents,
                  convertPrismaEventToEvent(
                      prismaEvents[Len(convertedEvents) + 1]))
    /\ UNCHANGED <<resolutions, pc>>
    /\ ConvertIdle

\* map returns.
ReturnConverted ==
    /\ pc = "convert"
    /\ Len(convertedEvents) = Len(prismaEvents)
    /\ pc' = "converted"
    /\ UNCHANGED <<convertedEvents, resolutions>>
    /\ ConvertIdle

\* The events are placed: getEventCoordinates of each.
PlaceEvents ==
    /\ pc = "converted"
    /\ resolutions' =
           Some([i \in 1..Len(convertedEvents) |->
                    getEventCoordinates(convertedEvents[i])])
    /\ pc' = "placed"
    /\ UNCHANGED convertedEvents
    /\ ConvertIdle

ConvertNext ==
    \/ ConvertPrismaEvent
    \/ ReturnConverted
    \/ PlaceEvents

ConvertSpec == ConvertInit /\ [][ConvertNext]_vars

----------------------------------------------------------------------------
\* What the two-stage resolution of a raw name is to give.
TwoStageResolution(rawName) ==
    IF rawName \in DOMAIN DATABASE_AREA_COORDINATES
    THEN Some(DATABASE_AREA_COORDINATES[rawName])
    ELSE IF normalizedArea(rawName) \in DOMAIN AREA_CENTER_COORDINATES
    THEN Some(AREA_CENTER_COORDINATES[normalizedArea(rawName)])
    ELSE None

(* C23: a raw area name found in DATABASE_AREA_COORDINATES resolves to the
   coordinates given there; a raw name not found there is normalized
   (lowercased, each run of whitespace replaced by one hyphen) and resolves
   to the center of that area code when the normalized name is a registered
   code; the result is null only when both fail. Stated of the coordinates
   the conversion gives each record that has an area. *)
C23_TwoStageResolution ==
    \A i \in 1..Len(convertedEvents) :
        prismaEvents[i].area # None
            => convertedEvents[i].coordinates
                   = TwoStageResolution(Val(prismaEvents[i].area))

(* C24: every valid area code (every key of AREA_DISPLAY_NAMES) has a
   center in AREA_CENTER_COORDINATES, so an event whose area is a valid code
   is placed: getEventCoordinates gives it coordinates. *)
C24_CenterOfIsTotal ==
    pc = "placed" =>
        \A i \in 1..Len(convertedEvents) :
            (/\ convertedEvents[i].area # None
             /\ isSanFranciscoArea(Val(convertedEvents[i].area)))
                => /\ Val(convertedEvents[i].area)
                          \in DOMAIN AREA_CENTER_COORDINATES
                   /\ Val(resolutions)[i] # None

(* C25: every event has locationType "exact" if it has coordinates, and
   locationType "approximate" only if it is located by its area alone, that
   is, has no coordinates; stated of the events the conversion of stored
   records produces. An event with no location at all is not held against
   the claim. *)
C25_LocationTypeInvariant ==
    \A i \in 1..Len(convertedEvents) :
        LET e == convertedEvents[i]
        IN  /\ e.coordinates # None => e.locationType = Some("exact")
            /\ e.locationType = Some("approximate") => e.coordinates = None

----------------------------------------------------------------------------
(* C26: in every state reached from the empty selection by calls of
   toggleAreaSelection and toggleCoordinateSelection, a location filter that
   exists has includeApproximate true. *)
C26_IncludeApproximateWhileSelected ==
    location # None => Val(location).includeApproximate = Some(TRUE)

\* Areas and a center selected, each by its own toggle.
C26_Witness ==
    /\ CalledTwice
    /\ {First.op, Last.op} = {"toggleArea", "toggleCenter"}
    /\ location # None
    /\ selectedAreas(location) # <<>>
    /\ selectedCenter(location) # None
    /\ Val(location).includeApproximate = Some(TRUE)

(* C27: in every state reached from the empty selection by calls of
   toggleAreaSelection and toggleCoordinateSelection, the location filter is
   absent or has something selected, a non-empty area list or a center with
   a radius; and a radius is there exactly when a center is. *)
C27_SmartClearing ==
    location # None =>
        /\ \/ selectedAreas(location) # <<>>
           \/ selectedCenter(location) # None /\ selectedRadiusKm(location) # None
        /\ selectedRadiusKm(location) # None <=> selectedCenter(location) # None

\* The center was deselected while an area was selected: the filter stays,
\* with the area alone.
C27_Witness ==
    /\ Called
    /\ Last.op = "toggleCenter"
    /\ Last.pre # None
    /\ selectedCenter(Last.pre) = Last.center
    /\ location # None
    /\ selectedAreas(location) # <<>>
    /\ selectedCenter(location) = None
    /\ selectedRadiusKm(location) = None

----------------------------------------------------------------------------
(* The page and its map: Home hands the events that pass the filters to
   EventMap, and clicks on the map come back as toggles. *)

\* The events of the page: two located by their areas alone, two a few
\* metres apart that carry different areas, one with coordinates only. All
\* are upcoming, and the category filter is "all".
MapEvents ==
    { [id |-> "m1", category |-> "Meetup", coordinates |-> None,
       area |-> Some("soma"), locationType |-> Some("approximate")],
      [id |-> "m2", category |-> "Meetup", coordinates |-> None,
       area |-> Some("mission"), locationType |-> Some("approximate")],
      [id |-> "m3", category |-> "Meetup", coordinates |-> Some(SFCenter),
       area |-> Some("soma"), locationType |-> Some("exact")],
      [id |-> "m4", category |-> "Meetup", coordinates |-> Some(NearSFCenter),
       area |-> Some("castro"), locationType |-> Some("exact")],
      [id |-> "m5", category |-> "Meetup", coordinates |-> Some(FartherNorth),
       area |-> None, locationType |-> Some("exact")] }

AllEventLists ==
    UNION {{l \in [1..n -> MapEvents] : NoDuplicates(l)} :
              n \in 0..MaxMapEvents}

\* filteredEvents of useEventFilters, which Home hands EventMap as
\* displayEvents (no AI search is active).
displayEvents ==
    IF Len(events) = 0 THEN <<>>
    ELSE IF location # None THEN filterEventsByLocation(events, Val(location))
    ELSE events

\* filteredEventsForCounting of EventMap: its time and category filters keep
\* every event here.
filteredEventsForCounting == displayEvents

\* The whole pass of useEventMarkers.
RECURSIVE useEventMarkers(_, _, _, _, _)
useEventMarkers(evts, clusterRadius, selAreas, selCoordinates, timestamp) ==
    IF evts = <<>> THEN <<>>
    ELSE LET before == useEventMarkers(SubSeq(evts, 1, Len(evts) - 1),
                                       clusterRadius, selAreas,
                                       selCoordinates, timestamp)
             event == evts[Len(evts)]
             resolved == getEventCoordinates(event)
         IN  IF resolved = None THEN before
             ELSE LET i == find(before, Val(resolved), clusterRadius)
                  IN  IF i # 0
                      THEN [before EXCEPT ![i] =
                               pushEvent(before[i], event, Val(resolved),
                                         selAreas, selCoordinates)]
                      ELSE push(before,
                                newMarker(event, Val(resolved), selAreas,
                                          selCoordinates, timestamp))

clusteredMarkers ==
    useEventMarkers(filteredEventsForCounting, DefaultClusterRadius,
                    selectedAreas(location), selectedCenter(location), now)

\* The areas whose circle EventMap draws: those of AREA_CENTER_COORDINATES
\* with an event among filteredEventsForCounting.
AreaCircles ==
    {area \in DOMAIN AREA_CENTER_COORDINATES :
        \E i \in 1..Len(filteredEventsForCounting) :
            filteredEventsForCounting[i].area = Some(area)}

\* [...new Set(marker.events.map(e => e.area).filter(Boolean))]
RECURSIVE uniqueAreas(_)
uniqueAreas(evts) ==
    IF evts = <<>> THEN <<>>
    ELSE LET before == uniqueAreas(SubSeq(evts, 1, Len(evts) - 1))
             event == evts[Len(evts)]
         IN  IF event.area = None \/ Includes(before, Val(event.area))
             THEN before
             ELSE Append(before, Val(event.area))

\* areas.forEach(area => onToggleArea(area)): every call is the
\* toggleAreaSelection of the same render and reads the same filters.location;
\* each queues an update that sets location, and the last one stands.
RECURSIVE forEachToggleArea(_, _, _)
forEachToggleArea(filtersLocation, pending, areas) ==
    IF areas = <<>> THEN pending
    ELSE forEachToggleArea(filtersLocation,
                           toggleAreaSelection(filtersLocation, Head(areas)),
                           Tail(areas))

\* handleMarkerClick with onToggleArea and onToggleCoordinates given: the
\* filters.location after the click.
handleMarkerClick(marker, filtersLocation) ==
    IF Len(marker.events) = 1
    THEN LET event == marker.events[1]
         IN  IF event.area # None
             THEN toggleAreaSelection(filtersLocation, Val(event.area))
             ELSE IF event.coordinates # None
             THEN toggleCoordinateSelection(filtersLocation,
                                            Val(event.coordinates), 1000)
             ELSE filtersLocation
    ELSE LET areas == uniqueAreas(marker.events)
         IN  IF Len(areas) > 0
             THEN forEachToggleArea(filtersLocation, filtersLocation, areas)
             ELSE toggleCoordinateSelection(filtersLocation,
                                            marker.coordinates, 500)

MapInit ==
    /\ events \in AllEventLists
    /\ location = None
    /\ hist = <<>>
    /\ pc = "map"
    /\ locationFilterArg = None /\ filteredEvents = None
    /\ markerArgs = None /\ markers = <<>> /\ cursor = 0
    /\ now = 0 /\ firstRun = None
    /\ prismaEvents = <<>> /\ convertedEvents = <<>> /\ resolutions = None

MapIdle ==
    /\ pc = "map"
    /\ UNCHANGED <<events, locationFilterArg, filteredEvents, pc, markerArgs,
                   markers, cursor, now, firstRun, prismaEvents,
                   convertedEvents, resolutions>>

\* A click on the circle of an area, and the re-render that follows.
ClickAreaCircle ==
    \E area \in AreaCircles :
        /\ MapIdle
        /\ location' = toggleAreaSelection(location, area)
        /\ hist' = <<[op |-> "circle", areas |-> <<area>>, pre |-> location]>>

\* A click on a marker, and the re-render that follows.
ClickMarker ==
    \E j \in 1..Len(clusteredMarkers) :
        /\ MapIdle
        /\ location' = handleMarkerClick(clusteredMarkers[j], location)
        /\ hist' = <<[op |-> IF clusteredMarkers[j].isCluster THEN "cluster"
                             ELSE "marker",
                      areas |-> uniqueAreas(clusteredMarkers[j].events),
                      pre |-> location]>>

\* A click on the clear button of the events list.
ClickClearLocationFilter ==
    /\ MapIdle
    /\ location # None
    /\ location' = None
    /\ hist' = <<[op |-> "clear", areas |-> <<>>, pre |-> location]>>

MapNext ==
    \/ ClickAreaCircle
    \/ ClickMarker
    \/ ClickClearLocationFilter

MapSpec == MapInit /\ [][MapNext]_vars

----------------------------------------------------------------------------
\* The area has an event under the time and category filters of the page.
HasEvents(area) == \E i \in 1..Len(events) : events[i].area = Some(area)

(* C28: whenever one area is selected and another area has events under the
   time and category filters, the circle of that other area is on the map,
   so that a click on it adds the area to the selection. *)
C28_OtherCirclesStay ==
    \A selected, other \in DOMAIN AREA_CENTER_COORDINATES :
        (/\ selectedAreas(location) = <<selected>>
         /\ other # selected
         /\ HasEvents(other))
            => other \in AreaCircles

(* C29: after a click on a cluster marker whose members carry two or more
   distinct areas, each of these areas is selected iff it was not selected
   before the click. *)
C29_ClusterClickTogglesAll ==
    (/\ hist # <<>>
     /\ hist[1].op = "cluster"
     /\ Len(hist[1].areas) >= 2)
        => \A k \in 1..Len(hist[1].areas) :
               Includes(selectedAreas(location), hist[1].areas[k])
                   <=> ~Includes(selectedAreas(hist[1].pre), hist[1].areas[k])

====
